---- MODULE Spec2Model ----
(***************************************************************************)
(* Model of homework.py: the fitness-tracker calculator (Training and its  *)
(* three variants), the InfoMessage formatter, the read_package dispatcher *)
(* and the driver loop of the __main__ block.                              *)
(*                                                                         *)
(* Numbers.  A Python number is modelled as an exact fraction <<n, d>> in  *)
(* lowest terms with d > 0.  The pair <<0, 0>> stands for an evaluation    *)
(* that raised ZeroDivisionError; every arithmetic operator passes it on,  *)
(* as an exception passes through the enclosing expression.  Binary        *)
(* floating-point rounding (an error of about 1e-16 per operation) is not  *)
(* modelled: arithmetic is that of the rationals.                          *)
(*                                                                         *)
(* Text.  A Python str is modelled as the sequence of its Unicode code     *)
(* points, so that the literal text of the program is kept exactly.        *)
(***************************************************************************)
EXTENDS Integers, Sequences, FiniteSets, TLC

VARIABLES
    packages,   \* the list of (workout_type, data) pairs of the __main__ block
    idx,        \* the position of the for loop in packages, from 1
    pc,         \* "for", "main", "print"; "raised" and "exit" end the run
    training,   \* the value of the name training
    info,       \* the value of the name info of main
    output,     \* the lines printed so far
    error       \* the class of the exception that ended the run, or "none"

vars == <<packages, idx, pc, training, info, output, error>>

---------------------------------------------------------------------------
(* Bounds of the model. *)

\* Longest list of packages the driver is given.
MaxPackages == 3

\* Longest argument list of one package.
MaxArgs == 6

---------------------------------------------------------------------------
(* Python numbers as exact fractions. *)

Abs(i) == IF i < 0 THEN -i ELSE i

RECURSIVE GCD(_, _)
GCD(a, b) == IF b = 0 THEN a ELSE GCD(b, a % b)

\* The fraction n/d (d # 0) in lowest terms with a positive denominator.
Frac(n, d) ==
    LET g == GCD(Abs(n), Abs(d))
        s == IF d < 0 THEN -1 ELSE 1
    IN  <<(s * n) \div g, (s * d) \div g>>

\* An integer literal.
Num(n) == <<n, 1>>

\* The outcome of an expression that raised ZeroDivisionError.
ZeroDivisionError == <<0, 0>>

IsRaised(x) == x[2] = 0

\* x + y
Add(x, y) ==
    IF IsRaised(x) \/ IsRaised(y) THEN ZeroDivisionError
    ELSE Frac(x[1] * y[2] + y[1] * x[2], x[2] * y[2])

\* x - y
Sub(x, y) ==
    IF IsRaised(x) \/ IsRaised(y) THEN ZeroDivisionError
    ELSE Frac(x[1] * y[2] - y[1] * x[2], x[2] * y[2])

\* x * y
Mul(x, y) ==
    IF IsRaised(x) \/ IsRaised(y) THEN ZeroDivisionError
    ELSE Frac(x[1] * y[1], x[2] * y[2])

\* x / y: true division, raising ZeroDivisionError on a zero divisor.
Div(x, y) ==
    IF IsRaised(x) \/ IsRaised(y) \/ y[1] = 0 THEN ZeroDivisionError
    ELSE Frac(x[1] * y[2], x[2] * y[1])

\* x // y: floor division, raising ZeroDivisionError on a zero divisor.
FloorDiv(x, y) ==
    IF IsRaised(x) \/ IsRaised(y) \/ y[1] = 0 THEN ZeroDivisionError
    ELSE LET q == Frac(x[1] * y[2], x[2] * y[1])
         IN  Num(q[1] \div q[2])

\* x ** 2
Pow2(x) == Mul(x, x)

---------------------------------------------------------------------------
(* Class constants. *)

\* LEN_STEP with Swimming's value for every class.
LEN_STEP_overridden(cls) == Frac(138, 100)

\* Training.LEN_STEP = 0.65 and Swimming.LEN_STEP = 1.38
LEN_STEP(cls) == IF cls = "Swimming" THEN Frac(138, 100) ELSE Frac(65, 100)

\* Training.M_IN_KM
M_IN_KM == 1000

\* Running.coeff_calorie_1, Running.coeff_calorie_2
Running_coeff_calorie_1 == 18
Running_coeff_calorie_2 == 20

\* SportsWalking.coeff_calorie_1 = 0.035, SportsWalking.coeff_calorie_2 = 0.029
SportsWalking_coeff_calorie_1 == Frac(35, 1000)
SportsWalking_coeff_calorie_2 == Frac(29, 1000)

\* Swimming.coeff_calorie_1 = 1.1, Swimming.coeff_calorie_2 = 2
Swimming_coeff_calorie_1 == Frac(11, 10)
Swimming_coeff_calorie_2 == 2

---------------------------------------------------------------------------
(* Python values: an object is a record whose field cls is its class. *)

\* None, the value of a name not yet assigned an object.
None == [cls |-> "NoneType"]

\* 'В базе отсутствует принятый код тренировки'
NO_CODE_TEXT ==
    <<1042, 32, 1073, 1072, 1079, 1077, 32, 1086, 1090, 1089, 1091, 1090,
      1089, 1090, 1074, 1091, 1077, 1090, 32, 1087, 1088, 1080, 1085, 1103,
      1090, 1099, 1081, 32, 1082, 1086, 1076, 32, 1090, 1088, 1077, 1085,
      1080, 1088, 1086, 1074, 1082, 1080>>

\* Training.__init__: the fields every training holds.
Training_init(cls, action, duration, weight) ==
    [cls |-> cls,
     action |-> action,
     duration |-> duration,
     weight |-> weight,
     dur_minutes |-> Mul(duration, Num(60))]

\* SportsWalking.__init__
SportsWalking_init(action, duration, weight, height) ==
    LET self == Training_init("SportsWalking", action, duration, weight)
    IN  [cls |-> self.cls,
         action |-> self.action,
         duration |-> self.duration,
         weight |-> self.weight,
         dur_minutes |-> self.dur_minutes,
         height |-> height]

\* Swimming.__init__
Swimming_init(action, duration, weight, length_pool, count_pool) ==
    LET self == Training_init("Swimming", action, duration, weight)
    IN  [cls |-> self.cls,
         action |-> self.action,
         duration |-> self.duration,
         weight |-> self.weight,
         dur_minutes |-> self.dur_minutes,
         length_pool |-> length_pool,
         count_pool |-> count_pool]

\* Training.get_distance
get_distance(t) ==
    Div(Mul(t.action, LEN_STEP(t.cls)), Num(M_IN_KM))

\* get_mean_speed without the override of Swimming.
get_mean_speed_base(t) ==
    Div(get_distance(t), t.duration)

\* get_mean_speed with Swimming's product of the pool values turned into a
\* difference.
get_mean_speed_minus(t) ==
    IF t.cls = "Swimming"
    THEN LET d == Sub(t.length_pool, t.count_pool)
         IN  Div(Div(d, Num(M_IN_KM)), t.duration)
    ELSE Div(get_distance(t), t.duration)

\* Training.get_mean_speed and its override Swimming.get_mean_speed
get_mean_speed(t) ==
    IF t.cls = "Swimming"
    THEN LET d == Mul(t.length_pool, t.count_pool)
         IN  Div(Div(d, Num(M_IN_KM)), t.duration)
    ELSE Div(get_distance(t), t.duration)

\* Running.get_spent_calories with the duration in hours in place of
\* dur_minutes.
Running_get_spent_calories_hours(t) ==
    LET a == Sub(Mul(Num(Running_coeff_calorie_1), get_mean_speed(t)),
                 Num(Running_coeff_calorie_2))
    IN  Mul(Div(Mul(a, t.weight), Num(M_IN_KM)), t.duration)

\* Running.get_spent_calories
Running_get_spent_calories(t) ==
    LET a == Sub(Mul(Num(Running_coeff_calorie_1), get_mean_speed(t)),
                 Num(Running_coeff_calorie_2))
    IN  Mul(Div(Mul(a, t.weight), Num(M_IN_KM)), t.dur_minutes)

\* SportsWalking.get_spent_calories
SportsWalking_get_spent_calories(t) ==
    LET b == FloorDiv(Pow2(get_mean_speed(t)), t.height)
        c == Mul(SportsWalking_coeff_calorie_2, t.weight)
    IN  Mul(Add(Mul(SportsWalking_coeff_calorie_1, t.weight), Mul(b, c)),
            t.dur_minutes)

\* Swimming.get_spent_calories
Swimming_get_spent_calories(t) ==
    LET e == Add(get_mean_speed(t), Swimming_coeff_calorie_1)
    IN  Mul(Mul(e, Num(Swimming_coeff_calorie_2)), t.weight)

\* get_spent_calories, dispatched on the class of the object.
get_spent_calories(t) ==
    CASE t.cls = "Running" -> Running_get_spent_calories(t)
      [] t.cls = "SportsWalking" -> SportsWalking_get_spent_calories(t)
      [] t.cls = "Swimming" -> Swimming_get_spent_calories(t)

\* Training.show_training_info: the InfoMessage, its arguments evaluated in
\* order; a field holds ZeroDivisionError when its evaluation raised.
show_training_info(t) ==
    [training_type |-> t.cls,
     duration |-> t.duration,
     distance |-> get_distance(t),
     speed |-> get_mean_speed(t),
     calories |-> get_spent_calories(t)]

\* Whether building the InfoMessage raised ZeroDivisionError.
InfoRaised(m) ==
    IsRaised(m.distance) \/ IsRaised(m.speed) \/ IsRaised(m.calories)

---------------------------------------------------------------------------
(* InfoMessage: the text of the message. *)

\* The six literal pieces of InfoMessage.message, around the fields {0}..{4}:
\* 'Тип тренировки: ', '; Длительность: ', ' ч.; Дистанция: ',
\* ' км; Ср. скорость: ', ' км/ч; Потрачено ккал: ', '.'
message ==
    << <<1058, 1080, 1087, 32, 1090, 1088, 1077, 1085, 1080, 1088, 1086,
         1074, 1082, 1080, 58, 32>>,
       <<59, 32, 1044, 1083, 1080, 1090, 1077, 1083, 1100, 1085, 1086, 1089,
         1090, 1100, 58, 32>>,
       <<32, 1095, 46, 59, 32, 1044, 1080, 1089, 1090, 1072, 1085, 1094,
         1080, 1103, 58, 32>>,
       <<32, 1082, 1084, 59, 32, 1057, 1088, 46, 32, 1089, 1082, 1086, 1088,
         1086, 1089, 1090, 1100, 58, 32>>,
       <<32, 1082, 1084, 47, 1095, 59, 32, 1055, 1086, 1090, 1088, 1072,
         1095, 1077, 1085, 1086, 32, 1082, 1082, 1072, 1083, 58, 32>>,
       <<46>> >>

\* type(self).__name__ as text: 'Running', 'SportsWalking', 'Swimming'
ClassName(cls) ==
    CASE cls = "Running" -> <<82, 117, 110, 110, 105, 110, 103>>
      [] cls = "SportsWalking" ->
            <<83, 112, 111, 114, 116, 115, 87, 97, 108, 107, 105, 110, 103>>
      [] cls = "Swimming" -> <<83, 119, 105, 109, 109, 105, 110, 103>>

\* The decimal digits of a natural number.
RECURSIVE Decimal(_)
Decimal(n) ==
    IF n < 10 THEN <<48 + n>> ELSE Decimal(n \div 10) \o <<48 + (n % 10)>>

\* |x| in thousandths, rounded to the nearest, a tie to the even one.
Thousandths(x) ==
    LET m == Abs(x[1]) * 1000
        q == m \div x[2]
        r == m % x[2]
    IN  IF 2 * r > x[2] \/ (2 * r = x[2] /\ q % 2 = 1) THEN q + 1 ELSE q

\* The format specification ':.2f' in place of ':.3f'.
Format3_two_digits(x) ==
    LET q == Thousandths(x) \div 10
    IN  (IF x[1] < 0 THEN <<45>> ELSE <<>>)
        \o Decimal(q \div 100) \o <<46>>
        \o <<48 + ((q \div 10) % 10), 48 + (q % 10)>>

\* The format specification ':.3f': sign, integer part, '.', three digits.
Format3(x) ==
    LET q == Thousandths(x)
    IN  (IF x[1] < 0 THEN <<45>> ELSE <<>>)
        \o Decimal(q \div 1000) \o <<46>>
        \o <<48 + ((q \div 100) % 10), 48 + ((q \div 10) % 10), 48 + (q % 10)>>

\* InfoMessage.get_message
get_message(m) ==
    message[1] \o ClassName(m.training_type)
    \o message[2] \o Format3(m.duration)
    \o message[3] \o Format3(m.distance)
    \o message[4] \o Format3(m.speed)
    \o message[5] \o Format3(m.calories)
    \o message[6]

---------------------------------------------------------------------------
(* The dispatcher. *)

\* The exception a call with the wrong number of arguments raises.
TypeError == [cls |-> "TypeError"]

\* The dict of read_package: workout code to class.
dict == [SWM |-> "Swimming", RUN |-> "Running", WLK |-> "SportsWalking"]

\* The number of positional parameters of each constructor (self excluded).
Arity(cls) ==
    CASE cls = "Running" -> 3
      [] cls = "SportsWalking" -> 4
      [] cls = "Swimming" -> 5

\* cls(*data) that drops the arguments beyond the constructor's parameters.
Construct_lenient(cls, data) ==
    IF Len(data) < Arity(cls) THEN TypeError
    ELSE CASE cls = "Running" ->
                Training_init("Running", data[1], data[2], data[3])
           [] cls = "SportsWalking" ->
                SportsWalking_init(data[1], data[2], data[3], data[4])
           [] cls = "Swimming" ->
                Swimming_init(data[1], data[2], data[3], data[4], data[5])

\* cls(*data): the instance, or TypeError when the argument count is wrong.
Construct(cls, data) ==
    IF Len(data) # Arity(cls) THEN TypeError
    ELSE CASE cls = "Running" ->
                Training_init("Running", data[1], data[2], data[3])
           [] cls = "SportsWalking" ->
                SportsWalking_init(data[1], data[2], data[3], data[4])
           [] cls = "Swimming" ->
                Swimming_init(data[1], data[2], data[3], data[4], data[5])

\* read_package
read_package(workout_type, data) ==
    IF workout_type \in DOMAIN dict
    THEN Construct(dict[workout_type], data)
    ELSE [cls |-> "str", text |-> NO_CODE_TEXT]

---------------------------------------------------------------------------
(* The inputs. *)

\* The list of the __main__ block.
DriverPackages ==
    << <<"SWM", <<Num(720), Num(1), Num(80), Num(25), Num(40)>> >>,
       <<"RUN", <<Num(15000), Num(1), Num(75)>> >>,
       <<"WLK", <<Num(9000), Num(1), Num(75), Num(180)>> >> >>

WorkoutTypes == {"SWM", "RUN", "WLK", "XYZ"}
ActionValues == {Num(-100), Num(0), Num(9000)}
DurationValues == {Num(0), Num(1), Frac(1, 2)}
WeightValues == {Num(75), Num(80)}
\* The fourth argument: a height (180 cm, 1.8 m) or a pool length.
FourthValues == {Num(0), Num(180), Frac(9, 5), Num(-25)}
\* The fifth argument (and any after it): a pool count.
FifthValues == {Num(0), Num(40)}

\* Argument lists of every length up to MaxArgs.
ArgLists ==
    { [i \in 1..n |-> CASE i = 1 -> a [] i = 2 -> d [] i = 3 -> w
                        [] i = 4 -> x [] OTHER -> y] :
        n \in 0..MaxArgs, a \in ActionValues, d \in DurationValues,
        w \in WeightValues, x \in FourthValues, y \in FifthValues }

\* Every package tried alone.
SinglePackages == { <<c, data>> : c \in WorkoutTypes, data \in ArgLists }

\* The packages lists are made of: those of the driver and failing ones.
ListPackages ==
    { DriverPackages[i] : i \in 1..Len(DriverPackages) }
    \cup { <<"XYZ", <<Num(720), Num(1), Num(80)>> >>,
           <<"RUN", <<Num(15000), Num(1)>> >>,
           <<"RUN", <<Num(15000), Num(0), Num(75)>> >>,
           <<"WLK", <<Num(9000), Num(1), Num(75), Num(0)>> >>,
           <<"SWM", <<Num(720), Num(0), Num(80), Num(25), Num(40)>> >> }

PackageLists ==
    { <<p>> : p \in SinglePackages }
    \cup UNION { [1..n -> ListPackages] : n \in 0..MaxPackages }
    \cup { DriverPackages }

---------------------------------------------------------------------------
(* The driver: the for loop of the __main__ block and main(). *)

Init ==
    /\ packages \in PackageLists
    /\ idx = 1
    /\ pc = "for"
    /\ training = None
    /\ info = None
    /\ output = <<>>
    /\ error = "none"

\* training = read_package(workout_type, data)
ReadPackage ==
    /\ pc = "for"
    /\ idx <= Len(packages)
    /\ LET r == read_package(packages[idx][1], packages[idx][2])
       IN  IF r = TypeError
           THEN /\ pc' = "raised"
                /\ error' = "TypeError"
                /\ UNCHANGED training
           ELSE /\ pc' = "main"
                /\ training' = r
                /\ UNCHANGED error
    /\ UNCHANGED <<packages, idx, info, output>>

\* main that swallows a failure of show_training_info and goes on to the
\* next package.
ShowTrainingInfo_skipping ==
    /\ pc = "main"
    /\ IF training.cls = "str" \/ InfoRaised(show_training_info(training))
       THEN /\ pc' = "for"
            /\ idx' = idx + 1
            /\ UNCHANGED <<info, error>>
       ELSE /\ pc' = "print"
            /\ info' = show_training_info(training)
            /\ UNCHANGED <<idx, error>>
    /\ UNCHANGED <<packages, training, output>>

\* main: info = training.show_training_info()
ShowTrainingInfo ==
    /\ pc = "main"
    /\ IF training.cls = "str"
       THEN /\ pc' = "raised"
            /\ error' = "AttributeError"
            /\ UNCHANGED info
       ELSE LET m == show_training_info(training)
            IN  IF InfoRaised(m)
                THEN /\ pc' = "raised"
                     /\ error' = "ZeroDivisionError"
                     /\ UNCHANGED info
                ELSE /\ pc' = "print"
                     /\ info' = m
                     /\ UNCHANGED error
    /\ UNCHANGED <<packages, idx, training, output>>

\* main: print(info.get_message()), and on to the next package
PrintMessage ==
    /\ pc = "print"
    /\ output' = Append(output, get_message(info))
    /\ idx' = idx + 1
    /\ pc' = "for"
    /\ UNCHANGED <<packages, training, info, error>>

\* The list is exhausted: the program ends.
Exit ==
    /\ pc = "for"
    /\ idx > Len(packages)
    /\ pc' = "exit"
    /\ UNCHANGED <<packages, idx, training, info, output, error>>

Next == ReadPackage \/ ShowTrainingInfo \/ PrintMessage \/ Exit

Spec == Init /\ [][Next]_vars

---------------------------------------------------------------------------
(* Properties.  What the statements below read of the state. *)

\* The package the loop is at, while there is one.
HasCurrent == idx <= Len(packages)
CurrentType == packages[idx][1]
CurrentData == packages[idx][2]

\* x is the fraction n/d (d > 0), compared by cross multiplication.
Is(x, n, d) == x[2] > 0 /\ x[1] * d = n * x[2]

IsTraining(v) == v.cls \in {"Running", "SportsWalking", "Swimming"}

\* The number of constructor parameters the specification gives each code.
ParamCount(code) ==
    CASE code = "RUN" -> 3 [] code = "WLK" -> 4 [] code = "SWM" -> 5

---------------------------------------------------------------------------
\* C1: for a workout code that is none of SWM, RUN, WLK, read_package fails
\* with an UnknownWorkoutCode error and never returns a string (or any other
\* value that is no training).
C1_UnknownCodeRaises ==
    (HasCurrent /\ pc # "for" /\ CurrentType \notin {"SWM", "RUN", "WLK"})
        => /\ pc = "raised"
           /\ error = "UnknownWorkoutCode"
           /\ training.cls # "str"

---------------------------------------------------------------------------
\* C2: for a known workout code and an argument list whose length differs
\* from the number of constructor parameters of the variant (3 for RUN, 4 for
\* WLK, 5 for SWM), too few or too many, read_package fails with the
\* argument error (Python's TypeError) and yields no training instance: the
\* name training keeps the value it had.
C2_ArgumentCountMismatchRaises ==
    [][(/\ pc = "for"
        /\ HasCurrent
        /\ CurrentType \in {"SWM", "RUN", "WLK"}
        /\ Len(CurrentData) # ParamCount(CurrentType))
          => /\ pc' = "raised"
             /\ error' = "TypeError"
             /\ training' = training
             /\ output' = output]_vars

\* RUN with only two arguments has been dispatched and has failed.
C2_Witness ==
    /\ pc = "raised"
    /\ error = "TypeError"
    /\ CurrentType = "RUN"
    /\ Len(CurrentData) = 2
    /\ ~IsTraining(training)

---------------------------------------------------------------------------
\* C3: for a SportsWalking training with duration > 0 and height > 0 given in
\* centimetres, get_spent_calories is
\* (0.035*weight + floor(mean_speed^2 / height_m) * 0.029*weight)
\*   * (duration*60), with height_m = height/100.
C3_WalkingCaloriesHeightInMetres ==
    (/\ pc = "print"
     /\ training.cls = "SportsWalking"
     /\ training.duration[1] > 0
     /\ training.height[1] > 0)
        => LET weight == training.weight
               height_m == Div(training.height, Num(100))
               floored == FloorDiv(Pow2(info.speed), height_m)
           IN  info.calories =
                 Mul(Add(Mul(Frac(35, 1000), weight),
                         Mul(floored, Mul(Frac(29, 1000), weight))),
                     Mul(training.duration, Num(60)))

---------------------------------------------------------------------------
\* C4: the training read_package("RUN", [action, duration, weight]) gives,
\* with duration > 0, is a Running whose summary has
\* distance = action*0.65/1000, mean speed = distance/duration and
\* calories = (18*mean_speed - 20) * weight / 1000 * (duration*60).
C4_RunningSummary ==
    (pc = "print" /\ CurrentType = "RUN")
        => LET action == CurrentData[1]
               duration == CurrentData[2]
               weight == CurrentData[3]
               distance == Div(Mul(action, Frac(65, 100)), Num(1000))
               mean_speed == Div(distance, duration)
           IN  /\ duration[1] > 0
               /\ training.cls = "Running"
               /\ info.training_type = "Running"
               /\ info.duration = duration
               /\ info.distance = distance
               /\ info.speed = mean_speed
               /\ info.calories =
                    Mul(Div(Mul(Sub(Mul(Num(18), mean_speed), Num(20)),
                                weight),
                            Num(1000)),
                        Mul(duration, Num(60)))

\* The summary of a run of half an hour has been computed.
C4_Witness ==
    /\ pc = "print"
    /\ CurrentType = "RUN"
    /\ CurrentData = <<Num(9000), Frac(1, 2), Num(80)>>
    /\ Is(info.calories, 45744, 100)

---------------------------------------------------------------------------
\* C5 as stated: for the driver's Running sample (action 15000, duration
\* 1 h, weight 75 kg) the results are distance 9.75 km, mean speed 9.75 km/h
\* and calories 648.45.
C5_DriverRunningSample_Stated ==
    (pc = "print" /\ packages[idx] = DriverPackages[2])
        => /\ Is(info.distance, 975, 100)
           /\ Is(info.speed, 975, 100)
           /\ Is(info.calories, 64845, 100)

\* C5 as amended: for the driver's Running sample the results are distance
\* 9.75 km, mean speed 9.75 km/h and calories 699.75.
C5_DriverRunningSample ==
    (pc = "print" /\ packages[idx] = DriverPackages[2])
        => /\ Is(info.distance, 975, 100)
           /\ Is(info.speed, 975, 100)
           /\ Is(info.calories, 69975, 100)

\* The summary of the driver's Running sample has been computed.
C5_Witness ==
    /\ pc = "print"
    /\ packages[idx] = <<"RUN", <<Num(15000), Num(1), Num(75)>> >>
    /\ info.training_type = "Running"

---------------------------------------------------------------------------
\* C6: the training read_package("SWM", [action, duration, weight,
\* pool_length, pool_count]) gives, with duration > 0, is a Swimming with
\* mean speed = (pool_length*pool_count)/1000/duration, distance =
\* action*1.38/1000 and calories = (mean_speed + 1.1) * 2 * weight; for the
\* sample (720, 1, 80, 25, 40) these are 0.9936, 1.0 and 336.0.
C6_SwimmingSummary ==
    (pc = "print" /\ CurrentType = "SWM")
        => LET action == CurrentData[1]
               duration == CurrentData[2]
               weight == CurrentData[3]
               pool_length == CurrentData[4]
               pool_count == CurrentData[5]
               mean_speed ==
                   Div(Div(Mul(pool_length, pool_count), Num(1000)), duration)
           IN  /\ duration[1] > 0
               /\ training.cls = "Swimming"
               /\ info.training_type = "Swimming"
               /\ info.speed = mean_speed
               /\ info.distance = Div(Mul(action, Frac(138, 100)), Num(1000))
               /\ info.calories =
                    Mul(Mul(Add(mean_speed, Frac(11, 10)), Num(2)), weight)
               /\ packages[idx] = DriverPackages[1]
                    => /\ Is(info.distance, 9936, 10000)
                       /\ Is(info.speed, 1, 1)
                       /\ Is(info.calories, 336, 1)

\* The summary of the driver's Swimming sample has been computed.
C6_Witness ==
    /\ pc = "print"
    /\ packages[idx] = <<"SWM", <<Num(720), Num(1), Num(80), Num(25), Num(40)>> >>
    /\ info.training_type = "Swimming"

---------------------------------------------------------------------------
\* C7 as stated: for all three kinds and all samples with duration > 0 and
\* weight > 0, whenever action >= 0 both the distance and the mean speed are
\* >= 0, with no condition on height, pool_length or pool_count.
C7_NonNegative_Stated ==
    (/\ pc = "print"
     /\ training.action[1] >= 0
     /\ training.duration[1] > 0
     /\ training.weight[1] > 0)
        => /\ info.distance[2] > 0 /\ info.distance[1] >= 0
           /\ info.speed[2] > 0 /\ info.speed[1] >= 0

\* C7 as amended: under the same conditions the distance is >= 0 for all
\* three kinds, and the mean speed is >= 0 for Running and SportsWalking and,
\* for Swimming, whenever pool_length * pool_count >= 0.
C7_NonNegative ==
    (/\ pc = "print"
     /\ training.action[1] >= 0
     /\ training.duration[1] > 0
     /\ training.weight[1] > 0)
        => /\ info.distance[2] > 0 /\ info.distance[1] >= 0
           /\ (training.cls = "Swimming"
                 => training.length_pool[1] * training.count_pool[1] >= 0)
                => info.speed[2] > 0 /\ info.speed[1] >= 0

\* The summary of a swim with a positive pool length and pool count has been
\* computed.
C7_Witness ==
    /\ pc = "print"
    /\ training.cls = "Swimming"
    /\ training.action[1] >= 0
    /\ training.length_pool[1] > 0
    /\ training.count_pool[1] > 0
    /\ info.speed[1] > 0

---------------------------------------------------------------------------
\* C8: no execution that dispatches a package and computes its summary
\* divides by zero: a sample with duration 0 (or, for SportsWalking, height
\* 0) is rejected by a guard before any formula divides by it.
C8_NoDivisionByZero ==
    error # "ZeroDivisionError"

---------------------------------------------------------------------------
\* C9: the driver handles the packages strictly in list order and prints
\* exactly one line per package, each package being dispatched, computed and
\* printed before the next is started; when the dispatch or the computation
\* of a package fails, nothing is printed for it, the error propagates and no
\* later package is handled.
C9_DriverOrder ==
    /\ Len(output) = idx - 1
    /\ idx <= Len(packages) + 1
    /\ \A i \in 1..Len(output) :
          LET t == read_package(packages[i][1], packages[i][2])
          IN  /\ IsTraining(t)
              /\ ~InfoRaised(show_training_info(t))
              /\ output[i] = get_message(show_training_info(t))
    /\ pc \in {"main", "print"}
          => /\ HasCurrent
             /\ training = read_package(CurrentType, CurrentData)
    /\ pc = "print" => info = show_training_info(training)
    /\ pc = "raised"
          => /\ HasCurrent
             /\ error \in {"TypeError", "AttributeError", "ZeroDivisionError"}
             /\ ~ENABLED Next
    /\ pc # "raised" => error = "none"
    /\ pc = "exit" => Len(output) = Len(packages)

\* The second of three packages has failed after the first was printed.
C9_Witness ==
    /\ pc = "raised"
    /\ Len(packages) = 3
    /\ idx = 2
    /\ Len(output) = 1

---------------------------------------------------------------------------
(* Reading a printed line back: what C10 states of the text. *)

IsDigit(c) == c \in 48..57

\* The first position from p on that holds no digit.
RECURSIVE DigitsEnd(_, _)
DigitsEnd(line, p) ==
    IF p <= Len(line) /\ IsDigit(line[p]) THEN DigitsEnd(line, p + 1) ELSE p

\* The number the digits at positions p..e-1 write.
RECURSIVE DigitsValue(_, _, _)
DigitsValue(line, p, e) ==
    IF p >= e THEN 0
    ELSE DigitsValue(line, p, e - 1) * 10 + (line[e - 1] - 48)

\* The piece of literal text stands at position p of the line.
HasPiece(line, p, piece) ==
    /\ p >= 1
    /\ p + Len(piece) - 1 <= Len(line)
    /\ SubSeq(line, p, p + Len(piece) - 1) = piece

\* The position after the numeric field that starts at p, or 0 when what
\* starts there is not the value v written as an optional '-', at least one
\* digit, '.', and exactly three digits, within 0.0005 of v.
FieldEnd(line, p, v) ==
    LET neg == p <= Len(line) /\ line[p] = 45
        s == IF neg THEN p + 1 ELSE p
        e == DigitsEnd(line, s)
        q == DigitsValue(line, s, e) * 1000 + DigitsValue(line, e + 1, e + 4)
    IN  IF /\ p >= 1
           /\ e > s
           /\ e + 3 <= Len(line)
           /\ line[e] = 46
           /\ \A k \in 1..3 : IsDigit(line[e + k])
           /\ (e + 4 <= Len(line) => ~IsDigit(line[e + 4]))
           /\ (neg <=> v[1] < 0)
           /\ 2 * Abs(Abs(v[1]) * 1000 - q * v[2]) <= v[2]
        THEN e + 4
        ELSE 0

\* The line is pieces[1] name pieces[2] duration pieces[3] distance
\* pieces[4] speed pieces[5] calories pieces[6], and nothing else.
MatchesTemplate(line, pieces, name, m) ==
    LET p1 == Len(pieces[1]) + 1
        p2 == p1 + Len(name)
        e2 == FieldEnd(line, p2 + Len(pieces[2]), m.duration)
        e3 == FieldEnd(line, e2 + Len(pieces[3]), m.distance)
        e4 == FieldEnd(line, e3 + Len(pieces[4]), m.speed)
        e5 == FieldEnd(line, e4 + Len(pieces[5]), m.calories)
    IN  /\ HasPiece(line, 1, pieces[1])
        /\ HasPiece(line, p1, name)
        /\ HasPiece(line, p2, pieces[2])
        /\ e2 > 0
        /\ HasPiece(line, e2, pieces[3])
        /\ e3 > 0
        /\ HasPiece(line, e3, pieces[4])
        /\ e4 > 0
        /\ HasPiece(line, e4, pieces[5])
        /\ e5 > 0
        /\ HasPiece(line, e5, pieces[6])
        /\ e5 + Len(pieces[6]) - 1 = Len(line)

\* The names of the variants: 'Running', 'SportsWalking', 'Swimming'.
KindName(kind) ==
    CASE kind = "Running" -> <<82, 117, 110, 110, 105, 110, 103>>
      [] kind = "SportsWalking" ->
            <<83, 112, 111, 114, 116, 115, 87, 97, 108, 107, 105, 110, 103>>
      [] kind = "Swimming" -> <<83, 119, 105, 109, 109, 105, 110, 103>>

\* 'Training type: ', '; Duration: ', ' h.; Distance: ', ' km; Avg speed: ',
\* ' km/h; Calories burned: ', '.'
EnglishPieces ==
    << <<84, 114, 97, 105, 110, 105, 110, 103, 32, 116, 121, 112, 101, 58,
         32>>,
       <<59, 32, 68, 117, 114, 97, 116, 105, 111, 110, 58, 32>>,
       <<32, 104, 46, 59, 32, 68, 105, 115, 116, 97, 110, 99, 101, 58, 32>>,
       <<32, 107, 109, 59, 32, 65, 118, 103, 32, 115, 112, 101, 101, 100, 58,
         32>>,
       <<32, 107, 109, 47, 104, 59, 32, 67, 97, 108, 111, 114, 105, 101, 115,
         32, 98, 117, 114, 110, 101, 100, 58, 32>>,
       <<46>> >>

\* 'Тип тренировки: ', '; Длительность: ', ' ч.; Дистанция: ',
\* ' км; Ср. скорость: ', ' км/ч; Потрачено ккал: ', '.'
RussianPieces ==
    << <<1058, 1080, 1087, 32, 1090, 1088, 1077, 1085, 1080, 1088, 1086,
         1074, 1082, 1080, 58, 32>>,
       <<59, 32, 1044, 1083, 1080, 1090, 1077, 1083, 1100, 1085, 1086, 1089,
         1090, 1100, 58, 32>>,
       <<32, 1095, 46, 59, 32, 1044, 1080, 1089, 1090, 1072, 1085, 1094,
         1080, 1103, 58, 32>>,
       <<32, 1082, 1084, 59, 32, 1057, 1088, 46, 32, 1089, 1082, 1086, 1088,
         1086, 1089, 1090, 1100, 58, 32>>,
       <<32, 1082, 1084, 47, 1095, 59, 32, 1055, 1086, 1090, 1088, 1072,
         1095, 1077, 1085, 1086, 32, 1082, 1082, 1072, 1083, 58, 32>>,
       <<46>> >>

\* A line has just been printed: info and training are those it came from.
JustPrinted == pc \in {"for", "exit"} /\ Len(output) >= 1

---------------------------------------------------------------------------
\* C10 as stated: get_message returns exactly "Training type: {kind};
\* Duration: {duration:.3f} h.; Distance: {distance:.3f} km; Avg speed:
\* {speed:.3f} km/h; Calories burned: {calories:.3f}.", the fields in this
\* order, kind the name of the variant of the training, and each of the four
\* numbers with exactly 3 decimal digits.
C10_MessageTemplate_Stated ==
    JustPrinted
        => MatchesTemplate(output[Len(output)], EnglishPieces,
                           KindName(training.cls), info)

\* C10 as amended: get_message returns exactly the same template with its
\* literal text in Russian, "Тип тренировки: {kind}; Длительность:
\* {duration:.3f} ч.; Дистанция: {distance:.3f} км; Ср. скорость:
\* {speed:.3f} км/ч; Потрачено ккал: {calories:.3f}.", the fields in the
\* order kind, duration, distance, mean speed, calories, kind the name of the
\* variant of the training, and each of the four numbers with exactly 3
\* decimal digits.
C10_MessageTemplate ==
    JustPrinted
        => MatchesTemplate(output[Len(output)], RussianPieces,
                           KindName(training.cls), info)

\* A line with a negative distance and a negative number of calories has
\* been printed.
C10_Witness ==
    /\ JustPrinted
    /\ training.cls = "Running"
    /\ info.calories[1] < 0
    /\ info.distance[1] < 0

====
